---------------------------- MODULE Spec2Model ----------------------------
(***************************************************************************)
(* A model of PlayAI's command line tool (cli.py): the pipeline of cmd_new *)
(* (copy template, purge, generate_spec, schema validation, write_spec,    *)
(* generate_scripts, write_scripts, copy_assets), GeminiClient's           *)
(* generate_spec and _determine_required_scripts, and the specification    *)
(* core (AssetReferenceChecker, BehaviorSpecAggregator) as the design      *)
(* document states it.                                                     *)
(*                                                                         *)
(* These specifications share the module's variables:                      *)
(*   Spec          one run of cmd_new                                      *)
(*   SpecResolver  _determine_required_scripts applied to a decoded JSON   *)
(*                 document of any shape                                   *)
(*   SpecScripts   generate_scripts applied to a document, with the        *)
(*                 service failing on any subset of the files              *)
(*   SpecAssets    the asset reference check of a schema-valid document    *)
(*   SpecAggregate the aggregation of a schema-valid document              *)
(*   SpecExtract   TextExtractor applied to a raw text                     *)
(***************************************************************************)
EXTENDS Integers, Sequences, FiniteSets, TLC

VARIABLES
    \* ---- SpecResolver
    doc,        \* the decoded JSON document handed to the resolver
    result,     \* what _determine_required_scripts returned (or raised)
    phase,      \* "build": the document is being produced; "done": resolved
    \* ---- Spec (cmd_new)
    pc,         \* the step cmd_new has completed
    client,     \* GeminiClient._client is not None
    response,   \* what the service answered to generate_spec's call
    spec,       \* the document generate_spec returned
    validation, \* how the schema validation of cmd_new ended
    fs,         \* the output directory: relative path -> content
    scripts,    \* the mapping generate_scripts returned
    steps,      \* the steps cmd_new has run, in order
    \* ---- SpecAssets, SpecAggregate (the specification core)
    cdoc,       \* a schema-valid SpecDocument: its scenes
    allowed,    \* the allowed asset paths (the catalog's snapshot)
    assetResult,\* what AssetReferenceChecker answered
    aggResult,  \* the records BehaviorSpecAggregator produced
    cphase,     \* "build", then "checked" or "aggregated"
    \* ---- SpecExtract (TextExtractor)
    raw,        \* the raw text the service answered with
    extracted,  \* what TextExtractor returned for it
    ephase      \* "build", then "extracted"

resolverVars == <<doc, result, phase>>
pipelineVars == <<pc, client, response, spec, validation, fs, scripts, steps>>
coreVars == <<cdoc, allowed, assetResult, aggResult, cphase>>
extractVars == <<raw, extracted, ephase>>
vars == <<resolverVars, pipelineVars, coreVars, extractVars>>

(***************************************************************************)
(* Decoded JSON values, as json.loads produces them.  Strings are TLA+     *)
(* strings; an object is a function from its keys to values.               *)
(***************************************************************************)
Null == [t |-> "null"]
Bool(b) == [t |-> "bool", b |-> b]
Num(n) == [t |-> "num", n |-> n]
Str(s) == [t |-> "str", s |-> s]
List(l) == [t |-> "list", l |-> l]
Obj(f) == [t |-> "obj", f |-> f]

EmptyObj == Obj(<<>>)
EmptyList == List(<<>>)

\* isinstance(v, dict), isinstance(v, str)
IsDict(v) == v.t = "obj"
IsStr(v) == v.t = "str"

\* Python's truth value of a decoded JSON value (what `x or y` and `if x` test).
Truthy(v) ==
    CASE v.t = "null" -> FALSE
      [] v.t = "bool" -> v.b
      [] v.t = "num"  -> v.n # 0
      [] v.t = "str"  -> v.s # ""
      [] v.t = "list" -> Len(v.l) > 0
      [] v.t = "obj"  -> DOMAIN v.f # {}

\* `x or y`
OrElse(x, y) == IF Truthy(x) THEN x ELSE y

\* dict.get(key): the value, or None when the key is absent.  The caller has
\* checked IsDict (on anything else Python raises AttributeError).
Get(d, key) == IF key \in DOMAIN d.f THEN d.f[key] ELSE Null

\* The elements of a set in some order (a dict's keys, when iterated).
RECURSIVE SetToSeq(_)
SetToSeq(S) ==
    IF S = {} THEN <<>>
    ELSE LET x == CHOOSE y \in S : TRUE IN <<x>> \o SetToSeq(S \ {x})

\* `for x in v`: a list yields its elements, a string its characters, a dict
\* its keys; a number, a boolean or None is not iterable (TypeError).
Iter(v) ==
    CASE v.t = "list" -> [ok |-> TRUE, items |-> v.l]
      [] v.t = "str"  -> [ok |-> TRUE,
                          items |-> [i \in 1..Len(v.s) |-> Str(SubSeq(v.s, i, i))]]
      [] v.t = "obj"  -> [ok |-> TRUE,
                          items |-> LET ks == SetToSeq(DOMAIN v.f)
                                    IN [i \in 1..Len(ks) |-> Str(ks[i])]]
      [] OTHER        -> [ok |-> FALSE, items |-> <<>>]

(***************************************************************************)
(* str.endswith and str.strip                                              *)
(***************************************************************************)
Whitespace == {" ", "\t", "\n", "\r", "\f"}

endswith(s, suffix) ==
    /\ Len(s) >= Len(suffix)
    /\ SubSeq(s, Len(s) - Len(suffix) + 1, Len(s)) = suffix

RECURSIVE lstrip(_)
lstrip(s) ==
    IF Len(s) > 0 /\ SubSeq(s, 1, 1) \in Whitespace
    THEN lstrip(SubSeq(s, 2, Len(s)))
    ELSE s

RECURSIVE rstrip(_)
rstrip(s) ==
    IF Len(s) > 0 /\ SubSeq(s, Len(s), Len(s)) \in Whitespace
    THEN rstrip(SubSeq(s, 1, Len(s) - 1))
    ELSE s

strip(s) == rstrip(lstrip(s))


(***************************************************************************)
(* GeminiClient._determine_required_scripts.  The result is the pair       *)
(* (required_paths, onclick_names), or Raised when an exception leaves the *)
(* function (AttributeError on .get of a non-dict, TypeError on iterating  *)
(* a non-iterable).                                                        *)
(***************************************************************************)
Raised == [ok |-> FALSE, paths |-> {}, names |-> {}]
Returned(paths, names) == [ok |-> TRUE, paths |-> paths, names |-> names]

ScriptsDir == "Assets/Scripts/"
CollectiblePath == "Assets/Scripts/Collectible.cs"
UIActionsPath == "Assets/Scripts/GameUIScripts.cs"

\* PlayerPaths without the suffix test.
PlayerPaths_AnyString(controller) ==
    IF IsStr(controller) THEN {ScriptsDir \o controller.s} ELSE {}

\* What the player's controller adds to required_paths.
PlayerPaths(controller) ==
    IF IsStr(controller) /\ endswith(controller.s, ".cs")
    THEN {ScriptsDir \o controller.s}
    ELSE {}

\* EnemyPaths without the suffix test.
EnemyPaths_AnyString(e_ctrl) ==
    IF IsStr(e_ctrl) THEN {ScriptsDir \o e_ctrl.s} ELSE {}

\* What one enemy's controller adds to required_paths.
EnemyPaths(e_ctrl) ==
    IF IsStr(e_ctrl) /\ endswith(e_ctrl.s, ".cs")
    THEN {ScriptsDir \o e_ctrl.s}
    ELSE {}

\* CollectiblePaths testing for a non-empty list instead of a true value.
CollectiblePaths_ListOnly(collectibles) ==
    IF collectibles.t = "list" /\ Len(collectibles.l) > 0
    THEN {CollectiblePath}
    ELSE {}

\* What a scene's collectibles add to required_paths.
CollectiblePaths(collectibles) ==
    IF Truthy(collectibles) THEN {CollectiblePath} ELSE {}

\* OnClickNames adding the name as written, not stripped.
OnClickNames_Unstripped(name) ==
    IF IsStr(name) /\ strip(name.s) # "" THEN {name.s} ELSE {}

\* What one UI element's onClick adds to onclick_names.
OnClickNames(name) ==
    IF IsStr(name) /\ strip(name.s) # ""
    THEN {strip(name.s)}
    ELSE {}

\* What the collected action names add to required_paths.
UIActionsPaths(onclick_names) ==
    IF onclick_names # {} THEN {UIActionsPath} ELSE {}

\* for enemy in <enemies>: the paths added, or Raised.
RECURSIVE ScanEnemies(_, _, _)
ScanEnemies(enemies, i, paths) ==
    IF i > Len(enemies) THEN Returned(paths, {})
    ELSE IF ~IsDict(enemies[i]) THEN Raised
    ELSE ScanEnemies(enemies, i + 1,
                     paths \cup EnemyPaths(Get(enemies[i], "controller")))

\* for ui in <ui>: the names added, or Raised.
RECURSIVE ScanUI(_, _, _)
ScanUI(uis, i, names) ==
    IF i > Len(uis) THEN Returned({}, names)
    ELSE IF ~IsDict(uis[i]) THEN Raised
    ELSE ScanUI(uis, i + 1, names \cup OnClickNames(Get(uis[i], "onClick")))

\* The body of `for scene in ...` on one scene.
ScanScene(scene, paths, names) ==
    IF ~IsDict(scene) THEN Raised
    ELSE LET player == OrElse(Get(scene, "player"), EmptyObj) IN
    IF ~IsDict(player) THEN Raised
    ELSE LET p1 == paths \cup PlayerPaths(Get(player, "controller"))
             en == Iter(OrElse(Get(scene, "enemies"), EmptyList)) IN
    IF ~en.ok THEN Raised
    ELSE LET r2 == ScanEnemies(en.items, 1, p1) IN
    IF ~r2.ok THEN Raised
    ELSE LET p3 == r2.paths \cup CollectiblePaths(Get(scene, "collectibles"))
             ui == Iter(OrElse(Get(scene, "ui"), EmptyList)) IN
    IF ~ui.ok THEN Raised
    ELSE LET r4 == ScanUI(ui.items, 1, names) IN
    IF ~r4.ok THEN Raised
    ELSE Returned(p3, r4.names)

RECURSIVE ScanScenes(_, _, _, _)
ScanScenes(scenes, i, paths, names) ==
    IF i > Len(scenes) THEN Returned(paths, names)
    ELSE LET r == ScanScene(scenes[i], paths, names) IN
         IF ~r.ok THEN Raised
         ELSE ScanScenes(scenes, i + 1, r.paths, r.names)

_determine_required_scripts(document) ==
    IF ~IsDict(document) THEN Raised
    ELSE LET sc == Iter(OrElse(Get(document, "scenes"), EmptyList)) IN
    IF ~sc.ok THEN Raised
    ELSE LET r == ScanScenes(sc.items, 1, {}, {}) IN
    IF ~r.ok THEN Raised
    ELSE Returned(r.paths \cup UIActionsPaths(r.names), r.names)


(***************************************************************************)
(* SpecResolver: a decoded document of any shape is produced item by item  *)
(* (the service's answer is not under the program's control), then         *)
(* _determine_required_scripts is applied to it.                           *)
(***************************************************************************)
MaxItems == 4

\* Values a controller field takes: a number, a name without the suffix,
\* script names, and the two names the resolver itself adds.
ControllerValues ==
    {Num(5), Str("Hero"), Str("Hero.cs"), Str("Collectible.cs"),
     Str("GameUIScripts.cs")}

\* A player: null, a non-object (falsy or truthy), or an object with or
\* without a controller.
PlayerValues ==
    {Null, Bool(FALSE), Str("hero"), EmptyObj}
        \cup {Obj([controller |-> c]) : c \in ControllerValues}

EnemyValues ==
    {Str("slime"), EmptyObj} \cup {Obj([controller |-> c]) : c \in ControllerValues}

CollectiblesValues ==
    {EmptyList, List(<<Obj([sprite |-> Str("coin.png")])>>), Bool(TRUE), Num(0)}

OnClickValues ==
    {Num(5), Str(""), Str(" "), Str("RestartGame"), Str(" RestartGame "),
     Str("Quit")}

UIValues ==
    {Str("button"), EmptyObj} \cup {Obj([onClick |-> n]) : n \in OnClickValues}

\* What "enemies" or "ui" holds when it is not a list of elements.
NonListValues == {Null, EmptyList, Num(7), Str("ab"), Obj([a |-> Null])}

SceneValues == {EmptyObj, Null, Str("Level1")}

\* The document before any scene is added: not an object, an object without
\* scenes, or an object whose scenes is not a list, or is the empty list.
RootDocs ==
    {EmptyList, EmptyObj}
        \cup {Obj([scenes |-> v]) : v \in NonListValues}

HasSceneList(d) ==
    IsDict(d) /\ "scenes" \in DOMAIN d.f /\ d.f["scenes"].t = "list"

LastScene(d) == d.f["scenes"].l[Len(d.f["scenes"].l)]

HasOpenScene(d) ==
    /\ HasSceneList(d)
    /\ Len(d.f["scenes"].l) > 0
    /\ IsDict(LastScene(d))

SetKey(o, key, v) == Obj((key :> v) @@ o.f)

WithLastScene(d, s) ==
    LET l == d.f["scenes"].l
    IN SetKey(d, "scenes", List([l EXCEPT ![Len(l)] = s]))

ListLen(v) == IF v.t = "list" THEN Len(v.l) ELSE 0

\* The number of items a document holds: scenes, fields set, list elements.
SceneSize(s) ==
    IF ~IsDict(s) THEN 1
    ELSE 1 + (IF "player" \in DOMAIN s.f THEN 1 ELSE 0)
           + (IF "collectibles" \in DOMAIN s.f THEN 1 ELSE 0)
           + (IF "enemies" \in DOMAIN s.f
                THEN (IF ListLen(s.f["enemies"]) = 0 THEN 1
                      ELSE ListLen(s.f["enemies"])) ELSE 0)
           + (IF "ui" \in DOMAIN s.f
                THEN (IF ListLen(s.f["ui"]) = 0 THEN 1
                      ELSE ListLen(s.f["ui"])) ELSE 0)

RECURSIVE SumSizes(_, _)
SumSizes(l, i) == IF i > Len(l) THEN 0 ELSE SceneSize(l[i]) + SumSizes(l, i + 1)

DocSize(d) == IF HasSceneList(d) THEN SumSizes(d.f["scenes"].l, 1) ELSE 0

CanGrow == phase = "build" /\ DocSize(doc) < MaxItems

NoResult == [ok |-> FALSE, paths |-> {}, names |-> {}]

AddScene(s) ==
    /\ CanGrow
    /\ HasSceneList(doc)
    /\ doc' = SetKey(doc, "scenes", List(Append(doc.f["scenes"].l, s)))
    /\ UNCHANGED <<result, phase, pipelineVars, coreVars, extractVars>>

SetPlayer(p) ==
    /\ CanGrow
    /\ HasOpenScene(doc)
    /\ "player" \notin DOMAIN LastScene(doc).f
    /\ doc' = WithLastScene(doc, SetKey(LastScene(doc), "player", p))
    /\ UNCHANGED <<result, phase, pipelineVars, coreVars, extractVars>>

SetCollectibles(c) ==
    /\ CanGrow
    /\ HasOpenScene(doc)
    /\ "collectibles" \notin DOMAIN LastScene(doc).f
    /\ doc' = WithLastScene(doc, SetKey(LastScene(doc), "collectibles", c))
    /\ UNCHANGED <<result, phase, pipelineVars, coreVars, extractVars>>

\* "enemies" or "ui" set to something that is not a list of elements.
SetNonList(key, v) ==
    /\ CanGrow
    /\ HasOpenScene(doc)
    /\ key \notin DOMAIN LastScene(doc).f
    /\ doc' = WithLastScene(doc, SetKey(LastScene(doc), key, v))
    /\ UNCHANGED <<result, phase, pipelineVars, coreVars, extractVars>>

\* One more element of the "enemies" or "ui" list of the last scene.
AddElement(key, e) ==
    /\ CanGrow
    /\ HasOpenScene(doc)
    /\ LET s == LastScene(doc)
           old == IF key \in DOMAIN s.f THEN s.f[key] ELSE EmptyList
       IN /\ old.t = "list"
          /\ key \in DOMAIN s.f => Len(old.l) > 0
          /\ doc' = WithLastScene(doc, SetKey(s, key, List(Append(old.l, e))))
    /\ UNCHANGED <<result, phase, pipelineVars, coreVars, extractVars>>

Resolve ==
    /\ phase = "build"
    /\ result' = _determine_required_scripts(doc)
    /\ phase' = "done"
    /\ UNCHANGED <<doc, pipelineVars, coreVars, extractVars>>


ResolverInit ==
    /\ doc \in RootDocs
    /\ result = NoResult
    /\ phase = "build"

ResolverIdle ==
    /\ doc = Null
    /\ result = NoResult
    /\ phase = "idle"

NextResolver ==
    \/ \E s \in SceneValues : AddScene(s)
    \/ \E p \in PlayerValues : SetPlayer(p)
    \/ \E c \in CollectiblesValues : SetCollectibles(c)
    \/ \E key \in {"enemies", "ui"}, v \in NonListValues : SetNonList(key, v)
    \/ \E e \in EnemyValues : AddElement("enemies", e)
    \/ \E u \in UIValues : AddElement("ui", u)
    \/ Resolve


(***************************************************************************)
(* GeminiClient.generate_spec                                              *)
(***************************************************************************)
NoSpec == [t |-> "nospec"]

\* _fallback_spec: the fields the tool itself reads, and the sprites.
_fallback_spec ==
    Obj([game |-> Obj([title |-> Str("Forest Platformer")]),
         scenes |-> List(<<
            Obj([name |-> Str("Level1"),
                 player |-> Obj([sprite |-> Str("hero_idle.png"),
                                 controller |-> Str("PlayerController.cs")]),
                 enemies |-> List(<<
                    Obj([sprite |-> Str("slime.png"), controller |-> Str("SlimeAI.cs")]),
                    Obj([sprite |-> Str("bat.png"), controller |-> Str("BatAI.cs")])>>),
                 collectibles |-> List(<<
                    Obj([sprite |-> Str("coin.png")]),
                    Obj([sprite |-> Str("coin.png")]),
                    Obj([sprite |-> Str("heart.png")])>>),
                 ui |-> List(<<
                    Obj([type |-> Str("label"), text |-> Str("Score: 0")]),
                    Obj([type |-> Str("button"), text |-> Str("Restart"),
                         onClick |-> Str("RestartGame")])>>)])>>)])

\* A document the service may answer with.
HeroDoc ==
    Obj([scenes |-> List(<<
        Obj([player |-> Obj([controller |-> Str("Hero.cs")]),
             enemies |-> List(<<Obj([controller |-> Str("SlimeAI.cs")])>>),
             ui |-> List(<<Obj([onClick |-> Str("Quit")])>>)])>>)])

\* json.loads on the texts the service answers with here: the decoded value,
\* or a JSONDecodeError.
json_loads(text) ==
    CASE text = "[]" -> [ok |-> TRUE, value |-> EmptyList]
      [] text = "null" -> [ok |-> TRUE, value |-> Null]
      [] text = "{\"scenes\": []}" ->
            [ok |-> TRUE, value |-> Obj([scenes |-> EmptyList])]
      [] text = "{\"scenes\": [{\"player\": {\"controller\": \"Hero.cs\"}}]}" ->
            [ok |-> TRUE,
             value |-> Obj([scenes |-> List(<<
                 Obj([player |-> Obj([controller |-> Str("Hero.cs")])])>>)])]
      [] OTHER -> [ok |-> FALSE, value |-> Null]

\* rsp.parsed: absent or None, an empty object (falsy), or a document.
ParsedValues == {Null, EmptyObj, HeroDoc}

\* rsp.text: None, or a text.
TextValues ==
    {Null, Str(""), Str(" \n"), Str("Sure! Here is your game."),
     Str("{\"scenes\": ["), Str("[]"), Str("null"), Str("{\"scenes\": []}"),
     Str(" {\"scenes\": [{\"player\": {\"controller\": \"Hero.cs\"}}]}\n")}

\* What generate_content does: raises, or answers.
Responses ==
    {[kind |-> "raise", parsed |-> Null, text |-> Null]}
        \cup {[kind |-> "rsp", parsed |-> p, text |-> t] :
                p \in ParsedValues, t \in TextValues}

NoResponse == [kind |-> "none", parsed |-> Null, text |-> Null]

\* generate_spec giving up where the code falls back.
generate_spec_NoFallback(has_client, rsp) ==
    IF ~has_client THEN _fallback_spec
    ELSE IF rsp.kind = "raise" THEN NoSpec
    ELSE IF Truthy(rsp.parsed) THEN rsp.parsed
    ELSE IF ~IsStr(rsp.text) THEN NoSpec
    ELSE LET text == strip(rsp.text.s) IN
         IF text = "" THEN NoSpec
         ELSE LET data == json_loads(text) IN
              IF data.ok THEN data.value ELSE NoSpec

\* generate_spec(user_prompt) with the client present or not and the service
\* answering rsp.
generate_spec(has_client, rsp) ==
    IF ~has_client THEN _fallback_spec
    ELSE IF rsp.kind = "raise" THEN _fallback_spec
    ELSE IF Truthy(rsp.parsed) THEN rsp.parsed
    ELSE IF ~IsStr(rsp.text) THEN _fallback_spec
    ELSE LET text == strip(rsp.text.s) IN
         IF text = "" THEN _fallback_spec
         ELSE LET data == json_loads(text) IN
              IF data.ok THEN data.value ELSE _fallback_spec


(***************************************************************************)
(* GeminiClient.generate_scripts and _fallback_scripts.  A file's content  *)
(* is recorded by where it came from.                                      *)
(***************************************************************************)
EnemyAIPath == "Assets/Scripts/EnemyAI.cs"

\* Path(rel_path).name
RECURSIVE PathName(_)
PathName(path) ==
    IF \E i \in 1..Len(path) : SubSeq(path, i, i) = "/"
    THEN LET i == CHOOSE j \in 1..Len(path) :
                    /\ SubSeq(path, j, j) = "/"
                    /\ \A k \in 1..(j - 1) : SubSeq(path, k, k) # "/"
         IN PathName(SubSeq(path, i + 1, Len(path)))
    ELSE path

\* str.replace(old, "")
RECURSIVE Remove(_, _)
Remove(s, old) ==
    IF Len(s) < Len(old) THEN s
    ELSE IF SubSeq(s, 1, Len(old)) = old
         THEN Remove(SubSeq(s, Len(old) + 1, Len(s)), old)
         ELSE SubSeq(s, 1, 1) \o Remove(SubSeq(s, 2, Len(s)), old)

NoTemplate == [kind |-> "none"]
Template(name) == [kind |-> "template", name |-> name]

_template_for_known(file_name) ==
    CASE file_name = "PlayerController.cs" -> Template("_PLAYER_CONTROLLER_CS")
      [] file_name = "EnemyAI.cs" -> Template("_ENEMY_AI_CS")
      [] file_name = "SlimeAI.cs" -> Template("_SLIME_AI_CS")
      [] file_name = "BatAI.cs" -> Template("_BAT_AI_CS")
      [] file_name = "Collectible.cs" -> Template("_COLLECTIBLE_CS")
      [] file_name = "GameUIScripts.cs" -> Template("_GAME_UI_SCRIPTS_CS")
      [] OTHER -> NoTemplate

_default_stub_for(file_name) ==
    [kind |-> "stub", class_name |-> strip(Remove(file_name, ".cs"))]

\* One method per action name; the names are passed sorted, so the text is a
\* function of their set.
_build_ui_actions_script(action_names) ==
    [kind |-> "ui_actions", methods |-> action_names]

\* The template or the stub of a file.
TemplateOrStub(file_name) ==
    LET tmpl == _template_for_known(file_name)
    IN IF tmpl = NoTemplate THEN _default_stub_for(file_name) ELSE tmpl

\* EnsureEnemyAI adding nothing.
EnsureEnemyAI_Skipped(results) == results

\* The EnemyAI base is added when a SlimeAI.cs or BatAI.cs is among the keys.
EnsureEnemyAI(results) ==
    IF /\ \E path \in DOMAIN results : PathName(path) \in {"SlimeAI.cs", "BatAI.cs"}
       /\ EnemyAIPath \notin DOMAIN results
    THEN (EnemyAIPath :> Template("_ENEMY_AI_CS")) @@ results
    ELSE results

ScriptsRaised == [ok |-> FALSE, files |-> <<>>]

_fallback_scripts(document) ==
    LET req == _determine_required_scripts(document) IN
    IF ~req.ok THEN ScriptsRaised
    ELSE [ok |-> TRUE,
          files |-> EnsureEnemyAI(
            [rel_path \in req.paths |->
                IF PathName(rel_path) = "GameUIScripts.cs"
                THEN _build_ui_actions_script(req.names)
                ELSE TemplateOrStub(PathName(rel_path))])]

\* generate_scripts(spec); `failing` are the paths on which the service's call
\* raises or answers with an empty text.
generate_scripts(has_client, document, failing) ==
    LET req == _determine_required_scripts(document) IN
    IF ~req.ok THEN ScriptsRaised
    ELSE IF ~has_client THEN _fallback_scripts(document)
    ELSE [ok |-> TRUE,
          files |-> EnsureEnemyAI(
            [rel_path \in req.paths |->
                IF PathName(rel_path) = "GameUIScripts.cs"
                THEN _build_ui_actions_script(req.names)
                ELSE IF rel_path \notin failing
                THEN [kind |-> "service", file_name |-> PathName(rel_path)]
                ELSE TemplateOrStub(PathName(rel_path))])]


(***************************************************************************)
(* The output directory and the steps of cmd_new                           *)
(***************************************************************************)
SpecPath == "Assets/Resources/Bootstrap/GameSpec2D.json"
AssetsDir == "Assets/3P/"

TemplateFile == [kind |-> "template_file"]
StaleFile == [kind |-> "stale_file"]
AssetFile == [kind |-> "asset"]
Json(value) == [kind |-> "json", value |-> value]

\* Output directories cmd_new may find: none, or one with files of an
\* earlier run.
InitialDirs ==
    {<<>>,
     [p \in {"Assets/Scripts/Old.cs", "Assets/Scripts/UIInvokeStatic.cs"}
        |-> StaleFile]}

\* Contents of unity_template/.
TemplateDirs ==
    {{"Assets/Scripts/UIInvokeStatic.cs", "Assets/Scripts/PlayerController.cs",
      "Assets/Scripts/Editor/GameGenBuilder.cs"},
     {"Assets/Scripts/UIInvokeStatic.cs", "Assets/Scripts/EnemyAI.cs",
      "ProjectSettings/ProjectVersion.txt"}}

\* Contents of asset_library/ (name, is_file), when it exists.
AssetLibraries ==
    {{[name |-> "coin.png", is_file |-> TRUE],
      [name |-> "HERO.PNG", is_file |-> TRUE],
      [name |-> "coin.png.meta", is_file |-> TRUE],
      [name |-> "readme.txt", is_file |-> TRUE],
      [name |-> "tiles.png", is_file |-> FALSE]}}

Restrict(f, S) == [x \in S |-> f[x]]

startswith(s, prefix) ==
    Len(s) >= Len(prefix) /\ SubSeq(s, 1, Len(prefix)) = prefix

\* scripts_dir.glob("*.cs"): the .cs files directly in Assets/Scripts.
InScriptsGlob(path) ==
    /\ startswith(path, ScriptsDir)
    /\ endswith(path, ".cs")
    /\ PathName(path) = SubSeq(path, Len(ScriptsDir) + 1, Len(path))

UpperLetters == "ABCDEFGHIJKLMNOPQRSTUVWXYZ"
LowerLetters == "abcdefghijklmnopqrstuvwxyz"

LowerChar(c) ==
    IF \E i \in 1..26 : SubSeq(UpperLetters, i, i) = c
    THEN LET i == CHOOSE j \in 1..26 : SubSeq(UpperLetters, j, j) = c
         IN SubSeq(LowerLetters, i, i)
    ELSE c

\* str.lower()
RECURSIVE lower(_)
lower(s) ==
    IF Len(s) = 0 THEN s
    ELSE LowerChar(SubSeq(s, 1, 1)) \o lower(SubSeq(s, 2, Len(s)))

\* Path.suffix of a file name: from its last dot, when the dot is not the
\* first character.
RECURSIVE suffix(_)
suffix(name) ==
    IF \E i \in 2..Len(name) : SubSeq(name, i, i) = "."
    THEN LET i == CHOOSE j \in 2..Len(name) :
                    /\ SubSeq(name, j, j) = "."
                    /\ \A k \in (j + 1)..Len(name) : SubSeq(name, k, k) # "."
         IN SubSeq(name, i, Len(name))
    ELSE ""

Step(name, next) ==
    /\ steps' = Append(steps, name)
    /\ pc' = next

copy_unity_template ==
    /\ pc = "copy_template"
    /\ \/ \E template \in TemplateDirs :
            /\ fs' = [p \in template |-> TemplateFile] @@ fs
            /\ Step("copy_template", "purge")
       \/ \* unity_template/ is missing: shutil.copytree raises
          /\ pc' = "crashed"
          /\ UNCHANGED <<fs, steps>>
    /\ UNCHANGED <<client, response, spec, validation, scripts, resolverVars, coreVars, extractVars>>

\* purge_template_scripts without the exception made for UIInvokeStatic.cs.
purge_template_scripts_All ==
    /\ pc = "purge"
    /\ LET found == {p \in DOMAIN fs : InScriptsGlob(p)}
       IN \E kept \in SUBSET found :
            fs' = Restrict(fs, DOMAIN fs \ (found \ kept))
    /\ Step("purge", "generate_spec")
    /\ UNCHANGED <<client, response, spec, validation, scripts, resolverVars, coreVars, extractVars>>

\* Every script of the glob but UIInvokeStatic.cs is unlinked; a failing
\* unlink is passed over and leaves the file.
purge_template_scripts ==
    /\ pc = "purge"
    /\ LET found == {p \in DOMAIN fs :
                        InScriptsGlob(p) /\ PathName(p) # "UIInvokeStatic.cs"}
       IN \E kept \in SUBSET found :
            fs' = Restrict(fs, DOMAIN fs \ (found \ kept))
    /\ Step("purge", "generate_spec")
    /\ UNCHANGED <<client, response, spec, validation, scripts, resolverVars, coreVars, extractVars>>

GenerateSpec ==
    /\ pc = "generate_spec"
    /\ \E has_client \in BOOLEAN :
        \E rsp \in (IF has_client THEN Responses ELSE {NoResponse}) :
            /\ client' = has_client
            /\ response' = rsp
            /\ spec' = generate_spec(has_client, rsp)
    /\ Step("generate_spec", "validate")
    /\ UNCHANGED <<validation, fs, scripts, resolverVars, coreVars, extractVars>>

\* ValidateSchema ending the run when the validation raises.
ValidateSchema_Terminal ==
    /\ pc = "validate"
    /\ \E schema_exists \in BOOLEAN, raised \in BOOLEAN :
        /\ validation' = IF ~schema_exists THEN "skipped"
                         ELSE IF raised THEN "failed" ELSE "passed"
        /\ pc' = IF schema_exists /\ raised THEN "aborted" ELSE "write_spec"
    /\ UNCHANGED <<client, response, spec, fs, scripts, steps, resolverVars, coreVars, extractVars>>

\* The schema file may be missing (no validation); jsonschema's import, the
\* schema's load or the validation may raise, which is printed as a warning.
ValidateSchema ==
    /\ pc = "validate"
    /\ \E schema_exists \in BOOLEAN, raised \in BOOLEAN :
        validation' = IF ~schema_exists THEN "skipped"
                      ELSE IF raised THEN "failed" ELSE "passed"
    /\ pc' = "write_spec"
    /\ UNCHANGED <<client, response, spec, fs, scripts, steps, resolverVars, coreVars, extractVars>>

write_spec ==
    /\ pc = "write_spec"
    /\ fs' = (SpecPath :> Json(spec)) @@ fs
    /\ Step("write_spec", "generate_scripts")
    /\ UNCHANGED <<client, response, spec, validation, scripts, resolverVars, coreVars, extractVars>>

GenerateScripts ==
    /\ pc = "generate_scripts"
    /\ LET req == _determine_required_scripts(spec) IN
       \E failing \in (IF client THEN SUBSET req.paths ELSE {{}}) :
         LET r == generate_scripts(client, spec, failing) IN
         IF r.ok
         THEN /\ scripts' = r.files
              /\ Step("generate_scripts", "write_scripts")
         ELSE \* the resolver's exception leaves cmd_new
              /\ pc' = "crashed"
              /\ UNCHANGED <<scripts, steps>>
    /\ UNCHANGED <<client, response, spec, validation, fs, resolverVars, coreVars, extractVars>>

write_scripts ==
    /\ pc = "write_scripts"
    /\ fs' = scripts @@ fs
    /\ Step("write_scripts", "copy_assets")
    /\ UNCHANGED <<client, response, spec, validation, scripts, resolverVars, coreVars, extractVars>>

\* copy_assets, after the prompt of cmd_new when the library is missing.
copy_assets(library) ==
    LET copied == {item \in library :
                      /\ item.is_file
                      /\ lower(suffix(item.name)) \in {".png", ".meta"}}
    IN [p \in {AssetsDir \o item.name : item \in copied} |-> AssetFile] @@ fs

CopyAssets ==
    /\ pc = "copy_assets"
    /\ \/ \E library \in AssetLibraries :
            /\ fs' = copy_assets(library)
            /\ Step("copy_assets", "done")
       \/ \* asset_library/ is missing, and --yes or the answer "y"
          /\ fs' = copy_assets({})
          /\ Step("copy_assets", "done")
       \/ \* asset_library/ is missing, no --yes, the answer "n": typer.Abort
          /\ pc' = "aborted"
          /\ UNCHANGED <<fs, steps>>
    /\ UNCHANGED <<client, response, spec, validation, scripts, resolverVars, coreVars, extractVars>>

CoreIdle ==
    /\ cdoc = <<>>
    /\ allowed = {}
    /\ assetResult = [ok |-> TRUE, invalid |-> <<>>, allowed |-> {}]
    /\ aggResult = <<>>
    /\ cphase = "idle"

ExtractIdle ==
    /\ raw = ""
    /\ extracted = ""
    /\ ephase = "idle"

PipelineInit ==
    /\ pc = "copy_template"
    /\ client = FALSE
    /\ response = NoResponse
    /\ spec = NoSpec
    /\ validation = "none"
    /\ fs \in InitialDirs
    /\ scripts = <<>>
    /\ steps = <<>>

PipelineIdle ==
    /\ pc = "idle"
    /\ client = FALSE
    /\ response = NoResponse
    /\ spec = NoSpec
    /\ validation = "none"
    /\ fs = <<>>
    /\ scripts = <<>>
    /\ steps = <<>>

Init == PipelineInit /\ ResolverIdle /\ CoreIdle /\ ExtractIdle

\* cmd_new, step by step.
Next ==
    \/ copy_unity_template
    \/ purge_template_scripts
    \/ GenerateSpec
    \/ ValidateSchema
    \/ write_spec
    \/ GenerateScripts
    \/ write_scripts
    \/ CopyAssets

Spec == Init /\ [][Next]_vars

InitResolver == ResolverInit /\ PipelineIdle /\ CoreIdle /\ ExtractIdle
SpecResolver == InitResolver /\ [][NextResolver]_vars


(***************************************************************************)
(* Properties of cmd_new (Spec)                                            *)
(***************************************************************************)
InSteps(name) == \E i \in 1..Len(steps) : steps[i] = name

\* C1, as stated: a document that fails the schema validation stops the run;
\* it is never written by write_spec and no script is generated from it.
C1_SchemaFailureIsTerminal ==
    validation = "failed" =>
        /\ ~InSteps("write_spec")
        /\ ~InSteps("generate_scripts")
        /\ ~InSteps("write_scripts")

\* C1, amended: the schema validation is best effort.  Whatever its outcome
\* (passed, failed with a warning, or skipped), the next step is write_spec
\* on the unchanged document, which writes exactly that document and hands
\* the run on to generate_scripts.
C1_SchemaFailureIsWarning ==
    [][/\ pc = "validate" => (pc' = "write_spec" /\ spec' = spec)
       /\ pc = "write_spec" =>
            /\ pc' = "generate_scripts"
            /\ spec' = spec
            /\ fs'[SpecPath] = Json(spec)]_vars

\* A run whose validation failed and which wrote the spec and the scripts.
C1_Witness ==
    /\ validation = "failed"
    /\ pc = "done"
    /\ fs[SpecPath] = Json(spec)
    /\ InSteps("write_scripts")

\* The service's call failed, or answered nothing that decodes: it raised,
\* or gave no parsed document and a text that is missing, empty once
\* trimmed, or not valid JSON.
ServiceFailed ==
    /\ client
    /\ \/ response.kind = "raise"
       \/ /\ response.kind = "rsp"
          /\ ~Truthy(response.parsed)
          /\ \/ ~IsStr(response.text)
             \/ strip(response.text.s) = ""
             \/ ~json_loads(strip(response.text.s)).ok

\* C2, as stated: after a failed call or a decode failure generate_spec
\* yields no specification, and nothing is written or generated.
C2_FailureYieldsNothing ==
    ServiceFailed =>
        /\ spec = NoSpec
        /\ ~InSteps("write_spec")
        /\ ~InSteps("generate_scripts")

\* C2, amended: after a failed call or a decode failure generate_spec returns
\* the built-in _fallback_spec document, and that substitute is what the
\* later stages receive: write_spec writes it and generate_scripts produces
\* its required scripts.
C2_FailureYieldsFallback ==
    ServiceFailed =>
        /\ spec = _fallback_spec
        /\ InSteps("write_spec") => fs[SpecPath] = Json(_fallback_spec)
        /\ InSteps("generate_scripts") =>
              _determine_required_scripts(_fallback_spec).paths
                  \subseteq DOMAIN scripts

\* A finished run after a text that is not valid JSON.
C2_Witness ==
    /\ ServiceFailed
    /\ response.kind = "rsp"
    /\ IsStr(response.text)
    /\ strip(response.text.s) # ""
    /\ pc = "done"
    /\ fs[SpecPath] = Json(_fallback_spec)

(***************************************************************************)
(* Properties of _determine_required_scripts (SpecResolver), stated on the *)
(* document itself.                                                        *)
(***************************************************************************)
Field(v, key) == IF IsDict(v) /\ key \in DOMAIN v.f THEN v.f[key] ELSE Null
Elems(v) == IF v.t = "list" THEN {v.l[i] : i \in 1..Len(v.l)} ELSE {}

DocScenes == Elems(Field(doc, "scenes"))
PlayerControllers == {Field(Field(s, "player"), "controller") : s \in DocScenes}
DocEnemies == UNION {Elems(Field(s, "enemies")) : s \in DocScenes}
EnemyControllers == {Field(e, "controller") : e \in DocEnemies}
DocUI == UNION {Elems(Field(s, "ui")) : s \in DocScenes}
OnClicks == {Field(u, "onClick") : u \in DocUI}

Resolved == phase = "done" /\ result.ok

\* "Assets/Scripts/<c>" for a JSON value c.
Formatted(c) ==
    CASE c.t = "str" -> c.s
      [] c.t = "num" -> ToString(c.n)
      [] OTHER -> "None"

HasSuffix(c) ==
    /\ IsStr(c)
    /\ Len(c.s) >= 3
    /\ SubSeq(c.s, Len(c.s) - 2, Len(c.s)) = ".cs"

\* C3: for every value c of a player's controller field, the required paths
\* contain "Assets/Scripts/<c>" if and only if c is a string ending in ".cs";
\* and players alone, with controllers that are absent, not strings or
\* without the suffix, give no path at all.
C3_PlayerControllerPath ==
    Resolved =>
        /\ \A c \in PlayerControllers :
              (ScriptsDir \o Formatted(c)) \in result.paths <=> HasSuffix(c)
        /\ (/\ \A c \in PlayerControllers : ~HasSuffix(c)
            /\ DocEnemies = {}
            /\ DocUI = {}
            /\ \A s \in DocScenes : Field(s, "collectibles") = Null)
           => result.paths = {}

\* Two players, one with a script name and one with a name without suffix.
C3_Witness ==
    /\ Resolved
    /\ \E c \in PlayerControllers : HasSuffix(c)
    /\ \E c \in PlayerControllers : IsStr(c) /\ ~HasSuffix(c)
    /\ result.paths # {}

\* C4, as stated: every enemy with a string controller c contributes
\* "Assets/Scripts/<c>", with or without the suffix.
C4_EveryEnemyString ==
    Resolved =>
        \A c \in EnemyControllers :
            IsStr(c) => (ScriptsDir \o c.s) \in result.paths

\* C4, amended: an enemy with a string controller c contributes
\* "Assets/Scripts/<c>" if and only if c ends in ".cs": the suffix condition
\* holds for enemies as for the player.
C4_EnemySuffixString ==
    Resolved =>
        \A c \in EnemyControllers :
            IsStr(c) => ((ScriptsDir \o c.s) \in result.paths <=> HasSuffix(c))

\* Enemies with a script name and with a name without suffix.
C4_Witness ==
    /\ Resolved
    /\ \E c \in EnemyControllers : HasSuffix(c)
    /\ \E c \in EnemyControllers : IsStr(c) /\ ~HasSuffix(c)

\* s without its leading and trailing whitespace: from its first to its last
\* character that is not whitespace.
NonWhitespace(s) == {k \in 1..Len(s) : SubSeq(s, k, k) \notin Whitespace}

Trimmed(s) ==
    IF NonWhitespace(s) = {} THEN ""
    ELSE LET first == CHOOSE k \in NonWhitespace(s) :
                        \A m \in NonWhitespace(s) : k <= m
             last == CHOOSE k \in NonWhitespace(s) :
                        \A m \in NonWhitespace(s) : k >= m
         IN SubSeq(s, first, last)

\* C5, as stated: the action names are the onClick values of the UI
\* elements, duplicates collapsed.
C5_NamesAreOnClickValues ==
    Resolved => result.names = {c.s : c \in {o \in OnClicks : IsStr(o)}}

\* C5, amended: the action names are the onClick strings of the UI elements
\* with leading and trailing whitespace removed, those that are empty once
\* trimmed left out, duplicates collapsed; values that are not strings give
\* no name.
C5_NamesAreTrimmedOnClicks ==
    Resolved =>
        result.names =
            {Trimmed(o.s) : o \in {v \in OnClicks : IsStr(v)}} \ {""}

\* An onClick with surrounding whitespace gave its trimmed name.
C5_Witness ==
    /\ Resolved
    /\ \E o \in OnClicks :
          /\ IsStr(o)
          /\ o.s \notin result.names
          /\ Trimmed(o.s) \in result.names

\* C6: the resolver returns a pair of sets for every decoded document,
\* whatever is absent or malformed in it.
C6_ResolverNeverFails == phase = "done" => result.ok

\* C7, as stated: the Collectible.cs path is required if and only if some
\* scene's collectibles is a non-empty list, whatever the controllers are.
C7_CollectibleIffNonEmptyList ==
    Resolved =>
        (CollectiblePath \in result.paths <=>
            \E s \in DocScenes :
                LET c == Field(s, "collectibles")
                IN c.t = "list" /\ Len(c.l) > 0)

\* C7, amended: the Collectible.cs path is required if and only if some
\* scene's collectibles value is true in Python's sense (a non-empty list, but
\* also true, a non-zero number, a non-empty string or object), or some
\* player's or enemy's controller is "Collectible.cs".
C7_CollectibleIffTruthyOrController ==
    Resolved =>
        (CollectiblePath \in result.paths <=>
            \/ \E s \in DocScenes :
                LET c == Field(s, "collectibles")
                IN \/ c.t = "list" /\ Len(c.l) > 0
                   \/ c.t = "bool" /\ c.b
                   \/ c.t = "num" /\ c.n # 0
                   \/ c.t = "str" /\ Len(c.s) > 0
                   \/ c.t = "obj" /\ DOMAIN c.f # {}
            \/ Str("Collectible.cs") \in PlayerControllers \cup EnemyControllers)

\* A scene with a non-empty collectibles list, and no controller anywhere.
C7_Witness ==
    /\ Resolved
    /\ CollectiblePath \in result.paths
    /\ \E s \in DocScenes :
          LET c == Field(s, "collectibles") IN c.t = "list" /\ Len(c.l) > 0
    /\ \A c \in PlayerControllers \cup EnemyControllers : c = Null

\* C8: the GameUIScripts.cs path is required if and only if the action-name
\* set is not empty.
C8_UIActionsIffNames ==
    Resolved => (UIActionsPath \in result.paths <=> result.names # {})


(***************************************************************************)
(* The specification core, from the design document: a schema-valid        *)
(* SpecDocument is a sequence of scenes [name, gameObjects, uiElements];   *)
(* an entity is [name, id, sprite, behaviorScripts], its name, id and      *)
(* sprite optional (Null or a string); a behavior-script declaration is    *)
(* [name, parameters, description], each optional.                         *)
(***************************************************************************)
MaxAssetItems == 4
MaxAggItems == 5

Entity(name, id, sprite) ==
    [name |-> name, id |-> id, sprite |-> sprite, behaviorScripts |-> <<>>]

Declaration(name, parameters, description) ==
    [name |-> name, parameters |-> parameters, description |-> description]

EmptyScene(name) == [name |-> name, gameObjects |-> <<>>, uiElements |-> <<>>]

\* ---- AssetReferenceChecker (design document, 4.3)

\* The sprite paths of a list of entities, those without a sprite skipped.
RECURSIVE EntitySprites(_, _)
EntitySprites(entities, i) ==
    IF i > Len(entities) THEN {}
    ELSE (IF IsStr(entities[i].sprite) THEN {entities[i].sprite.s} ELSE {})
            \cup EntitySprites(entities, i + 1)

\* The referenced paths: for every scene, every game object's and every UI
\* element's sprite path.
RECURSIVE ReferencedPaths(_, _)
ReferencedPaths(document, i) ==
    IF i > Len(document) THEN {}
    ELSE EntitySprites(document[i].gameObjects, 1)
            \cup EntitySprites(document[i].uiElements, 1)
            \cup ReferencedPaths(document, i + 1)

\* UnknownPaths accepting a path that differs from an allowed one in case.
UnknownPaths_IgnoringCase(document, allowed_paths) ==
    {p \in ReferencedPaths(document, 1) :
        \A a \in allowed_paths : lower(a) # lower(p)}

\* referenced - allowed
UnknownPaths(document, allowed_paths) ==
    ReferencedPaths(document, 1) \ allowed_paths

\* The lists that hold each element of a set once.
Enumerations(S) ==
    {l \in [1..Cardinality(S) -> S] : \A i, j \in DOMAIN l : l[i] = l[j] => i = j}

AssetsOk == [ok |-> TRUE, invalid |-> <<>>, allowed |-> {}]

\* Success, or the failure reporting the invalid paths (in the order
\* `invalid` lists them) and the full allowed list.
AssetReferenceChecker(document, allowed_paths, invalid) ==
    IF UnknownPaths(document, allowed_paths) = {}
    THEN AssetsOk
    ELSE [ok |-> FALSE, invalid |-> invalid, allowed |-> allowed_paths]

\* ---- BehaviorSpecAggregator (design document, 4.4)

GameObjectPlaceholder == "GameObject"
UIElementPlaceholder == "UIElement"
DeclarationPlaceholder == "BehaviorScript"

\* The entity's display name: its name, else its identifier, else the
\* placeholder of its kind.
EntityDisplayName(kind, entity) ==
    IF Truthy(entity.name) THEN entity.name.s
    ELSE IF Truthy(entity.id) THEN entity.id.s
    ELSE IF kind = "gameObject" THEN GameObjectPlaceholder
    ELSE UIElementPlaceholder

\* The declaration's name: its name, else the placeholder.
DeclarationName(declaration) ==
    IF Truthy(declaration.name) THEN declaration.name.s
    ELSE DeclarationPlaceholder

Owner(kind, entity, scene) ==
    [ownerKind |-> kind,
     ownerName |-> EntityDisplayName(kind, entity),
     sceneName |-> scene.name]

\* A record with what one declaration gives it appended.
Extended(record, declaration, owner) ==
    [name |-> record.name,
     usedBy |-> Append(record.usedBy, owner),
     parametersExamples |->
        IF Truthy(declaration.parameters)
        THEN Append(record.parametersExamples, declaration.parameters)
        ELSE record.parametersExamples,
     descriptions |->
        IF IsStr(declaration.description) /\ strip(declaration.description.s) # ""
        THEN Append(record.descriptions, strip(declaration.description.s))
        ELSE record.descriptions]

NewRecord(name) ==
    [name |-> name, usedBy |-> <<>>, parametersExamples |-> <<>>,
     descriptions |-> <<>>]

\* Merge grouping by name and owner kind instead of by name alone.
Merge_PerOwnerKind(records, declaration, owner) ==
    LET name == DeclarationName(declaration)
        found == {i \in DOMAIN records :
                    /\ records[i].name = name
                    /\ records[i].usedBy[1].ownerKind = owner.ownerKind}
    IN IF found = {}
       THEN Append(records, Extended(NewRecord(name), declaration, owner))
       ELSE LET i == CHOOSE k \in found : TRUE
            IN [records EXCEPT ![i] = Extended(@, declaration, owner)]

\* One declaration merged into the records, which are keyed by declaration
\* name and kept in insertion order.
Merge(records, declaration, owner) ==
    LET name == DeclarationName(declaration)
        found == {i \in DOMAIN records : records[i].name = name}
    IN IF found = {}
       THEN Append(records, Extended(NewRecord(name), declaration, owner))
       ELSE LET i == CHOOSE k \in found : TRUE
            IN [records EXCEPT ![i] = Extended(@, declaration, owner)]

RECURSIVE AggregateDeclarations(_, _, _, _)
AggregateDeclarations(records, declarations, i, owner) ==
    IF i > Len(declarations) THEN records
    ELSE AggregateDeclarations(Merge(records, declarations[i], owner),
                               declarations, i + 1, owner)

RECURSIVE AggregateEntities(_, _, _, _, _)
AggregateEntities(records, kind, entities, i, scene) ==
    IF i > Len(entities) THEN records
    ELSE AggregateEntities(
            AggregateDeclarations(records, entities[i].behaviorScripts, 1,
                                  Owner(kind, entities[i], scene)),
            kind, entities, i + 1, scene)

RECURSIVE AggregateScenes(_, _, _)
AggregateScenes(records, document, i) ==
    IF i > Len(document) THEN records
    ELSE AggregateScenes(
            AggregateEntities(
                AggregateEntities(records, "gameObject",
                                  document[i].gameObjects, 1, document[i]),
                "uiElement", document[i].uiElements, 1, document[i]),
            document, i + 1)

BehaviorSpecAggregator(document) == AggregateScenes(<<>>, document, 1)


(***************************************************************************)
(* SpecAssets and SpecAggregate: a schema-valid document is produced item  *)
(* by item, then checked against the allowed paths, or aggregated.         *)
(***************************************************************************)
SceneNames == {"Level1", "Level2"}

SpriteValues ==
    {Null, Str("asset_library/coin.png"), Str("asset_library/heart.png"),
     Str("asset_library/Coin.png")}

AllowedSets ==
    {{}, {"asset_library/coin.png"},
     {"asset_library/coin.png", "asset_library/heart.png"}}

SpriteEntities == {Entity(Null, Null, sprite) : sprite \in SpriteValues}

NamedEntities ==
    {Entity(Str("Hero"), Str("e1"), Null), Entity(Null, Str("e1"), Null),
     Entity(Null, Null, Null)}

DeclarationValues ==
    {Declaration(Str("PlayerController"), Obj([speed |-> Num(5)]),
                 Str(" Moves the hero ")),
     Declaration(Str("PlayerController"), Obj([speed |-> Num(7)]), Null),
     Declaration(Null, Null, Str("  ")),
     Declaration(Str("BehaviorScript"), EmptyObj, Null),
     Declaration(Str("Patrol"), Null, Str("Patrols"))}

EntityKinds == {"gameObject", "uiElement"}

EntitiesOf(scene, kind) ==
    IF kind = "gameObject" THEN scene.gameObjects ELSE scene.uiElements

WithEntities(scene, kind, entities) ==
    IF kind = "gameObject"
    THEN [scene EXCEPT !.gameObjects = entities]
    ELSE [scene EXCEPT !.uiElements = entities]

RECURSIVE EntitiesSize(_, _)
EntitiesSize(entities, i) ==
    IF i > Len(entities) THEN 0
    ELSE 1 + Len(entities[i].behaviorScripts) + EntitiesSize(entities, i + 1)

\* The number of items a document holds: scenes, entities, declarations.
RECURSIVE CoreSize(_, _)
CoreSize(document, i) ==
    IF i > Len(document) THEN 0
    ELSE 1 + EntitiesSize(document[i].gameObjects, 1)
           + EntitiesSize(document[i].uiElements, 1)
           + CoreSize(document, i + 1)

CoreCanGrow(limit) == cphase = "build" /\ CoreSize(cdoc, 1) < limit

CoreAddScene(name, limit) ==
    /\ CoreCanGrow(limit)
    /\ cdoc' = Append(cdoc, EmptyScene(name))
    /\ UNCHANGED <<allowed, assetResult, aggResult, cphase, resolverVars, pipelineVars, extractVars>>

CoreAddEntity(kind, entity, limit) ==
    /\ CoreCanGrow(limit)
    /\ Len(cdoc) > 0
    /\ LET scene == cdoc[Len(cdoc)]
       IN cdoc' = [cdoc EXCEPT ![Len(cdoc)] =
                    WithEntities(scene, kind, Append(EntitiesOf(scene, kind), entity))]
    /\ UNCHANGED <<allowed, assetResult, aggResult, cphase, resolverVars, pipelineVars, extractVars>>

\* One more declaration on the last entity of a kind in the last scene.
CoreAddDeclaration(kind, declaration, limit) ==
    /\ CoreCanGrow(limit)
    /\ Len(cdoc) > 0
    /\ LET scene == cdoc[Len(cdoc)]
           entities == EntitiesOf(scene, kind)
       IN /\ Len(entities) > 0
          /\ cdoc' = [cdoc EXCEPT ![Len(cdoc)] =
                WithEntities(scene, kind,
                    [entities EXCEPT ![Len(entities)].behaviorScripts =
                        Append(@, declaration)])]
    /\ UNCHANGED <<allowed, assetResult, aggResult, cphase, resolverVars, pipelineVars, extractVars>>

\* The order of the reported paths is the checker's choice.
CheckAssets ==
    /\ cphase = "build"
    /\ \E invalid \in Enumerations(UnknownPaths(cdoc, allowed)) :
          assetResult' = AssetReferenceChecker(cdoc, allowed, invalid)
    /\ cphase' = "checked"
    /\ UNCHANGED <<cdoc, allowed, aggResult, resolverVars, pipelineVars, extractVars>>

Aggregate ==
    /\ cphase = "build"
    /\ aggResult' = BehaviorSpecAggregator(cdoc)
    /\ cphase' = "aggregated"
    /\ UNCHANGED <<cdoc, allowed, assetResult, resolverVars, pipelineVars, extractVars>>

CoreInit ==
    /\ cdoc = <<>>
    /\ assetResult = AssetsOk
    /\ aggResult = <<>>
    /\ cphase = "build"

InitAssets ==
    CoreInit /\ allowed \in AllowedSets /\ ResolverIdle /\ PipelineIdle
        /\ ExtractIdle

NextAssets ==
    \/ \E name \in SceneNames : CoreAddScene(name, MaxAssetItems)
    \/ \E kind \in EntityKinds, entity \in SpriteEntities :
          CoreAddEntity(kind, entity, MaxAssetItems)
    \/ CheckAssets

SpecAssets == InitAssets /\ [][NextAssets]_vars

InitAggregate ==
    CoreInit /\ allowed = {} /\ ResolverIdle /\ PipelineIdle /\ ExtractIdle

NextAggregate ==
    \/ \E name \in SceneNames : CoreAddScene(name, MaxAggItems)
    \/ \E kind \in EntityKinds, entity \in NamedEntities :
          CoreAddEntity(kind, entity, MaxAggItems)
    \/ \E kind \in EntityKinds, declaration \in DeclarationValues :
          CoreAddDeclaration(kind, declaration, MaxAggItems)
    \/ Aggregate

SpecAggregate == InitAggregate /\ [][NextAggregate]_vars


(***************************************************************************)
(* Properties of AssetReferenceChecker (SpecAssets)                        *)
(***************************************************************************)
SeqElems(l) == {l[i] : i \in DOMAIN l}

\* Every entity of the document, of either kind, of any scene.
DocEntities ==
    UNION {SeqElems(cdoc[i].gameObjects) \cup SeqElems(cdoc[i].uiElements) :
            i \in DOMAIN cdoc}

\* The sprite paths the document refers to.
DocSprites == {e.sprite.s : e \in {x \in DocEntities : IsStr(x.sprite)}}

\* C10: the checker fails if and only if some referenced sprite path is not,
\* character for character, an allowed path; the invalid list then holds
\* exactly the referenced paths that are not allowed, each once, and the
\* allowed list is reported in full.
C10_InvalidIsReferencedMinusAllowed ==
    cphase = "checked" =>
        /\ assetResult.ok <=> DocSprites \subseteq allowed
        /\ ~assetResult.ok =>
            /\ SeqElems(assetResult.invalid) = DocSprites \ allowed
            /\ \A i, j \in DOMAIN assetResult.invalid :
                  assetResult.invalid[i] = assetResult.invalid[j] => i = j
            /\ assetResult.allowed = allowed

\* A failed check of a document referring to an allowed path, twice, and to
\* a path that differs from it in the case of a letter.
C10_Witness ==
    /\ cphase = "checked"
    /\ ~assetResult.ok
    /\ assetResult.invalid = <<"asset_library/Coin.png">>
    /\ "asset_library/coin.png" \in allowed
    /\ \E i \in DOMAIN cdoc :
          /\ \E k \in DOMAIN cdoc[i].gameObjects :
                cdoc[i].gameObjects[k].sprite = Str("asset_library/coin.png")
          /\ \E k \in DOMAIN cdoc[i].uiElements :
                cdoc[i].uiElements[k].sprite = Str("asset_library/coin.png")

(***************************************************************************)
(* Properties of BehaviorSpecAggregator (SpecAggregate)                    *)
(***************************************************************************)
RECURSIVE Flatten(_, _)
Flatten(lists, i) ==
    IF i > Len(lists) THEN <<>> ELSE lists[i] \o Flatten(lists, i + 1)

\* The declarations of an entity, each with its name and its owner.
EntityDeclarations(kind, entity, scene) ==
    [k \in DOMAIN entity.behaviorScripts |->
        [name |-> DeclarationName(entity.behaviorScripts[k]),
         owner |-> Owner(kind, entity, scene)]]

\* The declarations of the document in the order of the walk: scene by
\* scene, the game objects then the UI elements, each entity's declarations.
SceneDeclarations(scene) ==
    Flatten([k \in DOMAIN scene.gameObjects |->
                EntityDeclarations("gameObject", scene.gameObjects[k], scene)], 1)
        \o Flatten([k \in DOMAIN scene.uiElements |->
                EntityDeclarations("uiElement", scene.uiElements[k], scene)], 1)

DocDeclarations == Flatten([i \in DOMAIN cdoc |-> SceneDeclarations(cdoc[i])], 1)

OwnersOf(name) ==
    LET same == SelectSeq(DocDeclarations, LAMBDA entry : entry.name = name)
    IN [k \in DOMAIN same |-> same[k].owner]

FirstSeen(name) ==
    CHOOSE k \in DOMAIN DocDeclarations :
        /\ DocDeclarations[k].name = name
        /\ \A m \in 1..(k - 1) : DocDeclarations[m].name # name

MaxTokens == 4

\* The fence: three backquotes.  The parser pairs a backquote with the next
\* quote, so the string is written with one, which is cut off.
Fence == SubSeq("```'", 1, 3)

\* The first position of sub in s.
find(s, sub) ==
    LET at == {i \in 1..(Len(s) - Len(sub) + 1) :
                    SubSeq(s, i, i + Len(sub) - 1) = sub}
    IN IF at = {} THEN 0 ELSE CHOOSE i \in at : \A j \in at : i <= j

\* The last position of sub in s.
rfind(s, sub) ==
    LET at == {i \in 1..(Len(s) - Len(sub) + 1) :
                    SubSeq(s, i, i + Len(sub) - 1) = sub}
    IN IF at = {} THEN 0 ELSE CHOOSE i \in at : \A j \in at : i >= j

\* Fully bounded by matching delimiters: {...} or [...].
Bounded(s) ==
    \/ startswith(s, "{") /\ endswith(s, "}")
    \/ startswith(s, "[") /\ endswith(s, "]")

NoBlock == [found |-> FALSE, content |-> ""]

\* The first fenced block, optionally tagged as JSON: its trimmed content.
FencedBlock(s) ==
    LET open == find(s, Fence) IN
    IF open = 0 THEN NoBlock
    ELSE LET after == SubSeq(s, open + Len(Fence), Len(s))
             inner == IF startswith(after, "json")
                      THEN SubSeq(after, Len("json") + 1, Len(after))
                      ELSE after
             close == find(inner, Fence)
         IN IF close = 0 THEN NoBlock
            ELSE [found |-> TRUE, content |-> strip(SubSeq(inner, 1, close - 1))]

\* From the first opening delimiter to the last closing one, when both exist
\* in that order.
Enclosed(s, open, close) ==
    LET first == find(s, open)
        last == rfind(s, close)
    IN IF first > 0 /\ last > 0 /\ first < last
       THEN [found |-> TRUE, content |-> SubSeq(s, first, last)]
       ELSE NoBlock

\* Rules 2 to 5 on the trimmed text.
Heuristics(trimmed) ==
    LET block == FencedBlock(trimmed)
        array == Enclosed(trimmed, "[", "]")
        object == Enclosed(trimmed, "{", "}")
    IN IF block.found /\ Bounded(block.content) THEN block.content
       ELSE IF array.found THEN array.content
       ELSE IF object.found THEN object.content
       ELSE trimmed

\* TextExtractor without its fast path.
TextExtractor_NoFastPath(text) == Heuristics(strip(text))

TextExtractor(text) ==
    LET trimmed == strip(text)
    IN IF Bounded(trimmed) THEN trimmed ELSE Heuristics(trimmed)

(***************************************************************************)
(* SpecExtract: a raw text is produced piece by piece (prose, white space, *)
(* brackets, fences), then TextExtractor is applied to it.                 *)
(***************************************************************************)
Tokens == {" ", "a", "{", "}", "[", "]", Fence, "json"}

RECURSIVE TokenCount(_)
\* The number of pieces of a text.
TokenCount(s) ==
    IF s = "" THEN 0
    ELSE IF startswith(s, Fence) THEN 1 + TokenCount(SubSeq(s, Len(Fence) + 1, Len(s)))
    ELSE IF startswith(s, "json") THEN 1 + TokenCount(SubSeq(s, Len("json") + 1, Len(s)))
    ELSE 1 + TokenCount(SubSeq(s, 2, Len(s)))

AppendToken(token) ==
    /\ ephase = "build"
    /\ TokenCount(raw) < MaxTokens
    /\ raw' = raw \o token
    /\ UNCHANGED <<extracted, ephase, resolverVars, pipelineVars, coreVars>>

Extract ==
    /\ ephase = "build"
    /\ extracted' = TextExtractor(raw)
    /\ ephase' = "extracted"
    /\ UNCHANGED <<raw, resolverVars, pipelineVars, coreVars>>

InitExtract ==
    /\ raw = ""
    /\ extracted = ""
    /\ ephase = "build"
    /\ ResolverIdle /\ PipelineIdle /\ CoreIdle

NextExtract ==
    \/ \E token \in Tokens : AppendToken(token)
    \/ Extract

SpecExtract == InitExtract /\ [][NextExtract]_vars


(***************************************************************************)
(* Properties of TextExtractor (SpecExtract)                               *)
(***************************************************************************)
FirstChar(s) == IF s = "" THEN "" ELSE SubSeq(s, 1, 1)
LastChar(s) == IF s = "" THEN "" ELSE SubSeq(s, Len(s), Len(s))

\* The trimmed text starts with { and ends with }, or starts with [ and ends
\* with ].
TrimmedIsBracketed ==
    <<FirstChar(Trimmed(raw)), LastChar(Trimmed(raw))>>
        \in {<<"{", "}">>, <<"[", "]">>}

\* C11: for a text whose trimmed form starts with { and ends with }, or
\* starts with [ and ends with ], TextExtractor returns exactly the trimmed
\* text, whatever fences or other brackets occur inside it.
C11_FastPathReturnsTrimmed ==
    (ephase = "extracted" /\ TrimmedIsBracketed) => extracted = Trimmed(raw)

\* An object with an array inside, which the array-first rule would cut
\* down to the array.
C11_Witness ==
    /\ ephase = "extracted"
    /\ raw = "{[]}"
    /\ TrimmedIsBracketed
    /\ extracted = "{[]}"


(***************************************************************************)
(* SpecScripts: generate_scripts applied to a document, with or without a  *)
(* client, the service failing on any subset of the files; write_scripts   *)
(* then writes what it returned.                                           *)
(***************************************************************************)
MaxEnemies == 2

\* Controllers of enemies: the two specialised enemies, their base, another
\* script, and a specialised enemy in a subdirectory.
ScriptControllers ==
    {"SlimeAI.cs", "BatAI.cs", "EnemyAI.cs", "Goblin.cs", "mobs/SlimeAI.cs"}

EnemyLists ==
    UNION {[1..n -> {Obj([controller |-> Str(c)]) : c \in ScriptControllers}] :
            n \in 0..MaxEnemies}

\* One scene with enemies, with or without a button; and two documents of
\* another shape, as the service may answer.
ScriptDocs ==
    {Obj([scenes |-> List(<<Obj([enemies |-> List(es), ui |-> ui])>>)]) :
        es \in EnemyLists,
        ui \in {EmptyList, List(<<Obj([onClick |-> Str("RestartGame")])>>)}}
      \cup {Obj([scenes |-> Num(7)]), EmptyList}

InitScripts ==
    /\ pc = "generate_scripts"
    /\ client \in BOOLEAN
    /\ response = NoResponse
    /\ spec \in ScriptDocs
    /\ validation = "none"
    /\ fs = <<>>
    /\ scripts = <<>>
    /\ steps = <<>>
    /\ ResolverIdle /\ CoreIdle /\ ExtractIdle

NextScripts ==
    \/ GenerateScripts
    \/ write_scripts

SpecScripts == InitScripts /\ [][NextScripts]_vars


(***************************************************************************)
(* Properties of generate_scripts (SpecScripts)                            *)
(***************************************************************************)
\* generate_scripts has been called and has ended, by a return or not.
ScriptsCallEnded == pc # "generate_scripts"

\* generate_scripts has returned a mapping.
ScriptsReturned == pc \in {"write_scripts", "copy_assets"}

RequiredPaths == _determine_required_scripts(spec).paths

\* C12, as stated: for every document and every pattern of failures of the
\* service, generate_scripts returns a mapping that holds every required
\* path (a failed file is replaced, the others are still generated), and
\* without a client the mapping is the one of _fallback_scripts.
C12_EveryFailureIsReplaced ==
    ScriptsCallEnded =>
        /\ ScriptsReturned
        /\ RequiredPaths \subseteq DOMAIN scripts
        /\ ~client => scripts = _fallback_scripts(spec).files

\* The file name of a path is the given name.
IsNamed(path, name) == path = name \/ endswith(path, "/" \o name)

HasSpecialisedEnemy(keys) ==
    \E path \in keys : IsNamed(path, "SlimeAI.cs") \/ IsNamed(path, "BatAI.cs")

\* The two properties of a returned key set.
BaseAndNoExtra(keys) ==
    /\ HasSpecialisedEnemy(keys) => EnemyAIPath \in keys
    /\ keys \subseteq RequiredPaths \cup {EnemyAIPath}

\* C13: a mapping returned by generate_scripts or _fallback_scripts that has
\* a key named SlimeAI.cs or BatAI.cs also has Assets/Scripts/EnemyAI.cs,
\* and it has no key other than the required paths and that base path.
C13_EnemyAIBaseAndNoExtraKeys ==
    ScriptsReturned =>
        /\ BaseAndNoExtra(DOMAIN scripts)
        /\ BaseAndNoExtra(DOMAIN _fallback_scripts(spec).files)

\* A SlimeAI.cs in a subdirectory written by the service and a BatAI.cs
\* replaced by its template after a failure; the base is not required and
\* is added from the template.
C13_Witness ==
    /\ ScriptsReturned
    /\ client
    /\ EnemyAIPath \notin RequiredPaths
    /\ DOMAIN scripts =
         {"Assets/Scripts/mobs/SlimeAI.cs", "Assets/Scripts/BatAI.cs", EnemyAIPath}
    /\ scripts["Assets/Scripts/mobs/SlimeAI.cs"].kind = "service"
    /\ scripts["Assets/Scripts/BatAI.cs"] = Template("_BAT_AI_CS")
    /\ scripts[EnemyAIPath] = Template("_ENEMY_AI_CS")


(***************************************************************************)
(* The order of the steps of cmd_new (Spec)                                *)
(***************************************************************************)
FixedOrder ==
    <<"copy_template", "purge", "generate_spec", "write_spec",
      "generate_scripts", "write_scripts", "copy_assets">>

IsPrefix(s, t) == Len(s) <= Len(t) /\ s = SubSeq(t, 1, Len(s))

UIInvokePath == "Assets/Scripts/UIInvokeStatic.cs"

\* C14: the steps of a run are taken in the fixed order copy template,
\* purge, generate spec, write spec, generate scripts, write scripts, copy
\* assets, none repeated (a run that stops early has taken a prefix of it);
\* the purge leaves UIInvokeStatic.cs as it found it; and once write_scripts
\* has run, every script it wrote stays in the output directory.
C14_FixedOrderPurgeBeforeWrite ==
    [][/\ IsPrefix(steps', FixedOrder)
       /\ Len(steps') \in {Len(steps), Len(steps) + 1}
       /\ (pc = "purge" /\ UIInvokePath \in DOMAIN fs) =>
            /\ UIInvokePath \in DOMAIN fs'
            /\ fs'[UIInvokePath] = fs[UIInvokePath]
       /\ (\E i \in 1..Len(steps') : steps'[i] = "write_scripts") =>
            /\ pc' # "purge"
            /\ \A path \in DOMAIN scripts' :
                    path \in DOMAIN fs' /\ fs'[path] = scripts'[path]]_vars

\* A finished run over an output directory of an earlier run: all seven
\* steps in order, the stale script purged, the helper kept, and the
\* template's PlayerController.cs replaced by the generated one.
C14_Witness ==
    /\ pc = "done"
    /\ steps = FixedOrder
    /\ UIInvokePath \in DOMAIN fs
    /\ "Assets/Scripts/Old.cs" \notin DOMAIN fs
    /\ "Assets/Scripts/PlayerController.cs" \in DOMAIN scripts
    /\ fs["Assets/Scripts/PlayerController.cs"] =
         scripts["Assets/Scripts/PlayerController.cs"]
    /\ fs["Assets/Scripts/PlayerController.cs"] # TemplateFile

=============================================================================
